---- MODULE Spec2Model ----
(***************************************************************************)
(* Model of the lazy-loading project grid                                  *)
(* (src/components/shared/LazyProjectGrid.tsx): the Grid Controller        *)
(* LazyProjectGrid, its per-item wrappers LazyProjectItem and the deferred *)
(* batch expansions it schedules with setTimeout.                          *)
(***************************************************************************)
EXTENDS Integers, Sequences, FiniteSets, TLC

\* ---------------------------------------------------------------- bounds
MaxLen == 3          \* longest displayed list
MaxInitialLoad == 2  \* largest initialLoad prop
MaxBatch == 1        \* largest batchSize prop
MaxTimers == 2       \* most setTimeout callbacks pending at once, the grid alone
MaxItemTimers == 1
MaxFetched == 3      \* longest list the data source returns
MaxCalls == 2        \* cap of the per-wrapper count of onVisible calls

VARIABLES
  projects,              \* prop: the displayed list, a sequence of slugs
  initialLoad,           \* prop
  batchSize,             \* prop
  enableVirtualization,  \* prop
  loadedItems,           \* useState<Set<number>>
  loadedCount,           \* useState(0)
  isLoading,             \* useState(false)
  timers,                \* pending setTimeout callbacks, oldest first
  hasBeenVisible,        \* per slug: the wrapper's local useState(false)
  onVisibleCalls,        \* per slug: calls of onVisible by the mounted wrapper
  last,                  \* the step that produced this state
  page                   \* ProjectsPage: its locals and what it rendered

gridVars == <<projects, initialLoad, batchSize, enableVirtualization, loadedItems,
              loadedCount, isLoading, timers, hasBeenVisible, onVisibleCalls, last>>

vars == <<projects, initialLoad, batchSize, enableVirtualization, loadedItems,
          loadedCount, isLoading, timers, hasBeenVisible, onVisibleCalls, last,
          page>>

\* -------------------------------------------------------------- helpers
Min(a, b) == IF a <= b THEN a ELSE b
Max(a, b) == IF a >= b THEN a ELSE b

Slugs == 1 .. MaxLen

Prefix(k) == [j \in 1 .. k |-> j]
Reversed(k) == [j \in 1 .. k |-> k + 1 - j]

\* the lists the page may hand to the grid: slugs are unique within a list
ProjectLists == {Prefix(k) : k \in 0 .. MaxLen} \cup {Reversed(k) : k \in 0 .. MaxLen}

\* the lists in source order only: what the grid itself can tell apart is the length
PrefixLists == {Prefix(k) : k \in 0 .. MaxLen}

Mounted(list) == {list[j] : j \in 1 .. Len(list)}

\* projects.map((project, index) => ...): 0-based index of a slug
IndexOf(list, s) == (CHOOSE j \in 1 .. Len(list) : list[j] = s) - 1

\* new Set(Array.from({ length: Math.min(initialLoad, projects.length) }, (_, i) => i))
InitialItemsOffByOne(n, len) == 0 .. Min(n, len)

InitialItems(n, len) == 0 .. (Min(n, len) - 1)

\* for (i = Math.max(0, index - batchSize); i <= Math.min(length - 1, index + batchSize); i++)
BatchWindowNoUpperClamp(index, b, len) == Max(0, index - b) .. (index + b)

BatchWindowOneSided(index, b, len) == index .. Min(len - 1, index + b)

BatchWindow(index, b, len) == Max(0, index - b) .. Min(len - 1, index + b)

\* the grid's three pieces of state and its pending timers, as one value
Grid == [loadedItems |-> loadedItems, loadedCount |-> loadedCount,
         isLoading |-> isLoading, timers |-> timers]

\* the initial-load effect
initialLoadEffect(g, n, len) ==
  [g EXCEPT !.loadedItems = InitialItems(n, len),
            !.loadedCount = Cardinality(InitialItems(n, len))]

\* handleItemVisible(index), under the props the callback closed over
handleItemVisibleNoCheck(g, index, len, b, ev) ==
  LET newSet == g.loadedItems \cup {index} IN
  [loadedItems |-> newSet,
   loadedCount |-> Cardinality(newSet),
   isLoading |-> IF ev THEN TRUE ELSE g.isLoading,
   timers |-> IF ev
              THEN Append(g.timers, [index |-> index, batchSize |-> b,
                                     length |-> len, stale |-> FALSE])
              ELSE g.timers]

handleItemVisibleAlwaysBatch(g, index, len, b, ev) ==
  IF index \in g.loadedItems THEN g
  ELSE LET newSet == g.loadedItems \cup {index} IN
       [loadedItems |-> newSet, loadedCount |-> Cardinality(newSet),
        isLoading |-> TRUE,
        timers |-> Append(g.timers, [index |-> index, batchSize |-> b,
                                     length |-> len, stale |-> FALSE])]

handleItemVisibleLoadNext(g, index, len, b, ev) ==
  LET newSet == g.loadedItems \cup {Min(Cardinality(g.loadedItems), len - 1)} IN
  [loadedItems |-> newSet, loadedCount |-> Cardinality(newSet),
   isLoading |-> g.isLoading, timers |-> g.timers]

handleItemVisible(g, index, len, b, ev) ==
  IF index \in g.loadedItems THEN g
  ELSE LET newSet == g.loadedItems \cup {index} IN
       [loadedItems |-> newSet,
        loadedCount |-> Cardinality(newSet),
        isLoading |-> IF ev THEN TRUE ELSE g.isLoading,
        timers |-> IF ev
                   THEN Append(g.timers, [index |-> index, batchSize |-> b,
                                          length |-> len, stale |-> FALSE])
                   ELSE g.timers]

\* the setTimeout callback of the oldest pending expansion
timerCallbackKeepsFlag(g) ==
  LET t == Head(g.timers) IN
  [g EXCEPT !.loadedItems = @ \cup BatchWindow(t.index, t.batchSize, t.length),
            !.timers = Tail(@)]

timerCallbackReplace(g) ==
  LET t == Head(g.timers) IN
  [g EXCEPT !.loadedItems = BatchWindow(t.index, t.batchSize, t.length),
            !.isLoading = FALSE,
            !.timers = Tail(@)]

timerCallback(g) ==
  LET t == Head(g.timers) IN
  [g EXCEPT !.loadedItems = @ \cup BatchWindow(t.index, t.batchSize, t.length),
            !.isLoading = FALSE,
            !.timers = Tail(@)]

\* all timers of g fired, oldest first
RECURSIVE Drain(_)
Drain(g) == IF g.timers = <<>> THEN g ELSE Drain(timerCallback(g))

\* LazyProjectItem.handleIntersection: does this signal notify the grid?
handleIntersectionNoGuard(isIntersecting, flag) == isIntersecting

handleIntersection(isIntersecting, flag) == isIntersecting /\ ~flag

\* LazyProjectItem render: real card (TRUE) or skeleton (FALSE)
RendersCard(list, loaded, flags, s) == (IndexOf(list, s) \in loaded) \/ flags[s]

\* number of VirtualPlaceholder blocks rendered below the grid
PlaceholderCount == IF isLoading /\ enableVirtualization THEN batchSize ELSE 0

\* pending timers are marked once a re-initialization has happened after
\* they were scheduled
MarkStale(ts) == [j \in 1 .. Len(ts) |-> [ts[j] EXCEPT !.stale = TRUE]]

\* ------------------------------------------------------------ the page
\* the category tags of a project
ProjectTypes == {"ui", "system"}

ProjectRecords == [slug : 1 .. MaxFetched, type : ProjectTypes]

\* what fetchProjects() may resolve with: project records with unique slugs
FetchedLists ==
  {list \in UNION {[1 .. k -> ProjectRecords] : k \in 0 .. MaxFetched} :
     \A a, b \in 1 .. Len(list) : list[a].slug = list[b].slug => a = b}

\* what fetchProjects() may throw: an Error with a message, or another value
ThrownValues ==
  {[isError |-> TRUE, message |-> "fetch failed"],
   [isError |-> TRUE, message |-> "HTTP 500"],
   [isError |-> FALSE, message |-> ""]}

\* error is string | null: <<>> is null, <<m>> is the string m
NoError == <<>>

\* err instanceof Error ? err.message : "An unknown error occurred"
errorOf(thrown) ==
  IF thrown.isError THEN <<thrown.message>> ELSE <<"An unknown error occurred">>

\* if (error): null and the empty string are falsy
Truthy(error) == error # NoError /\ error[1] # ""

\* projects.filter((project) => project.type === "ui")
uiProjects(list) == SelectSeq(list, LAMBDA project : project.type = "ui")

\* projects.filter((project) => project.type === "system")
systemProjectsSameTag(list) == SelectSeq(list, LAMBDA project : project.type = "ui")

systemProjects(list) == SelectSeq(list, LAMBDA project : project.type = "system")

\* what ProjectsPage returns: the error panel, or the two sections, each with
\* a LazyProjectGrid when its subset is not empty
pageRenderIgnoresError(list, error) ==
  [view |-> "main", message |-> NoError,
   uiGrid |-> IF Len(uiProjects(list)) = 0 THEN <<>> ELSE <<uiProjects(list)>>,
   systemGrid |-> IF Len(systemProjects(list)) = 0 THEN <<>>
                  ELSE <<systemProjects(list)>>]

pageRender(list, error) ==
  IF Truthy(error)
  THEN [view |-> "error", message |-> error, uiGrid |-> <<>>, systemGrid |-> <<>>]
  ELSE [view |-> "main", message |-> NoError,
        uiGrid |-> IF Len(uiProjects(list)) = 0 THEN <<>> ELSE <<uiProjects(list)>>,
        systemGrid |-> IF Len(systemProjects(list)) = 0 THEN <<>>
                       ELSE <<systemProjects(list)>>]

\* the page before it runs: let projects = [], let error = null, nothing rendered
PageStart ==
  [pc |-> "start", fetchCalls |-> 0, projects |-> <<>>, error |-> NoError,
   thrown |-> <<>>, rendered |-> <<>>]

\* --------------------------------------------------------------- actions
Init ==
  /\ projects \in ProjectLists
  /\ initialLoad \in 0 .. MaxInitialLoad
  /\ batchSize \in 1 .. MaxBatch
  /\ enableVirtualization \in BOOLEAN
  /\ loadedItems = {}
  /\ loadedCount = 0
  /\ isLoading = FALSE
  /\ timers = <<>>
  /\ hasBeenVisible = [s \in Slugs |-> FALSE]
  /\ onVisibleCalls = [s \in Slugs |-> 0]
  /\ last = [op |-> "new", index |-> 0]
  /\ page = PageStart

SetGrid(g) ==
  /\ loadedItems' = g.loadedItems
  /\ loadedCount' = g.loadedCount
  /\ isLoading' = g.isLoading
  /\ timers' = g.timers

\* first commit: the initial-load effect runs
Mount ==
  /\ UNCHANGED page
  /\ last.op = "new"
  /\ SetGrid(initialLoadEffect(Grid, initialLoad, Len(projects)))
  /\ last' = [op |-> "init", index |-> 0]
  /\ UNCHANGED <<projects, initialLoad, batchSize, enableVirtualization,
                 hasBeenVisible, onVisibleCalls>>

\* the parent re-renders the grid with a new list and/or initialLoad; the
\* effect re-runs when projects.length or initialLoad changed; wrappers of
\* slugs that left the list unmount and lose their state
Rerender(newProjects, newInitialLoad) ==
  /\ UNCHANGED page
  /\ last.op # "new"
  /\ <<newProjects, newInitialLoad>> # <<projects, initialLoad>>
  /\ projects' = newProjects
  /\ initialLoad' = newInitialLoad
  /\ IF Len(newProjects) # Len(projects) \/ newInitialLoad # initialLoad
     THEN /\ SetGrid([initialLoadEffect(Grid, newInitialLoad, Len(newProjects))
                        EXCEPT !.timers = MarkStale(@)])
          /\ last' = [op |-> "reinit", index |-> 0]
     ELSE /\ UNCHANGED <<loadedItems, loadedCount, isLoading, timers>>
          /\ last' = [op |-> "rerender", index |-> 0]
  /\ hasBeenVisible' = [s \in Slugs |-> s \in Mounted(newProjects) /\ hasBeenVisible[s]]
  /\ onVisibleCalls' = [s \in Slugs |-> IF s \in Mounted(newProjects)
                                         THEN onVisibleCalls[s] ELSE 0]
  /\ UNCHANGED <<batchSize, enableVirtualization>>

\* the IntersectionObserver of the wrapper of slug s reports isIntersecting
Intersect(s, isIntersecting) ==
  /\ UNCHANGED page
  /\ last.op # "new"
  /\ s \in Mounted(projects)
  /\ LET index == IndexOf(projects, s) IN
     IF handleIntersection(isIntersecting, hasBeenVisible[s])
     THEN LET g == handleItemVisible(Grid, index, Len(projects), batchSize,
                                     enableVirtualization) IN
          /\ Len(g.timers) <= MaxItemTimers
          /\ onVisibleCalls[s] < MaxCalls
          /\ hasBeenVisible' = [hasBeenVisible EXCEPT ![s] = TRUE]
          /\ onVisibleCalls' = [onVisibleCalls EXCEPT ![s] = @ + 1]
          /\ SetGrid(g)
          /\ last' = [op |-> "visible", index |-> index]
     ELSE /\ last' = [op |-> "ignored", index |-> 0]
          /\ UNCHANGED <<loadedItems, loadedCount, isLoading, timers,
                         hasBeenVisible, onVisibleCalls>>
  /\ UNCHANGED <<projects, initialLoad, batchSize, enableVirtualization>>

\* the oldest pending setTimeout callback runs
FireTimer ==
  /\ UNCHANGED page
  /\ timers # <<>>
  /\ SetGrid(timerCallback(Grid))
  /\ last' = [op |-> "timer", index |-> Head(timers).index]
  /\ UNCHANGED <<projects, initialLoad, batchSize, enableVirtualization,
                 hasBeenVisible, onVisibleCalls>>

\* a mounted wrapper calls onVisible(index): the grid's handleItemVisible runs
ItemVisible(index) ==
  /\ UNCHANGED page
  /\ last.op # "new"
  /\ index \in 0 .. (Len(projects) - 1)
  /\ LET g == handleItemVisible(Grid, index, Len(projects), batchSize,
                                enableVirtualization) IN
     /\ Len(g.timers) <= MaxTimers
     /\ SetGrid(g)
  /\ last' = [op |-> "visible", index |-> index]
  /\ UNCHANGED <<projects, initialLoad, batchSize, enableVirtualization,
                 hasBeenVisible, onVisibleCalls>>

\* The Grid Controller on its own: the list keeps the source order and
\* onVisible may be called with any index of the list, any number of times.
InitGrid == Init /\ projects \in PrefixLists

Next ==
  \/ Mount
  \/ \E newProjects \in PrefixLists, newInitialLoad \in 0 .. MaxInitialLoad :
       Rerender(newProjects, newInitialLoad)
  \/ \E index \in 0 .. (MaxLen - 1) : ItemVisible(index)
  \/ FireTimer

Spec == InitGrid /\ [][Next]_vars

\* The grid alone, every scheduled timer eventually firing (setTimeout of the
\* event loop).
SpecFair == InitGrid /\ [][Next]_vars /\ WF_vars(FireTimer)

\* The grid with its wrappers: onVisible is called by a wrapper's
\* handleIntersection only, and the list may be reordered.
NextItems ==
  \/ Mount
  \/ \E newProjects \in ProjectLists, newInitialLoad \in 0 .. MaxInitialLoad :
       Rerender(newProjects, newInitialLoad)
  \/ \E s \in Slugs, isIntersecting \in BOOLEAN : Intersect(s, isIntersecting)
  \/ FireTimer

SpecItems == Init /\ [][NextItems]_vars

\* ProjectsPage calls fetchProjects() and awaits it
PageCallFetch ==
  /\ page.pc = "start"
  /\ page' = [page EXCEPT !.pc = "awaiting", !.fetchCalls = @ + 1]
  /\ UNCHANGED gridVars

\* the awaited fetch resolves: projects = await fetchProjects()
PageFetchResolves(list) ==
  /\ page.pc = "awaiting"
  /\ page' = [page EXCEPT !.pc = "settled", !.projects = list]
  /\ UNCHANGED gridVars

\* the awaited fetch throws: the catch block sets error
PageFetchRejects(thrown) ==
  /\ page.pc = "awaiting"
  /\ page' = [page EXCEPT !.pc = "settled", !.error = errorOf(thrown),
                          !.thrown = <<thrown>>]
  /\ UNCHANGED gridVars

\* the page returns its element
PageReturn ==
  /\ page.pc = "settled"
  /\ page' = [page EXCEPT !.pc = "rendered",
                          !.rendered = <<pageRender(page.projects, page.error)>>]
  /\ UNCHANGED gridVars

InitPage ==
  /\ Init
  /\ projects = <<>>
  /\ initialLoad = 0
  /\ batchSize = 1
  /\ enableVirtualization = FALSE

NextPage ==
  \/ PageCallFetch
  \/ \E list \in FetchedLists : PageFetchResolves(list)
  \/ \E thrown \in ThrownValues : PageFetchRejects(thrown)
  \/ PageReturn

\* One render of ProjectsPage, up to the element it returns.
SpecPage == InitPage /\ [][NextPage]_vars

TypeOK ==
  /\ projects \in ProjectLists
  /\ loadedItems \subseteq 0 .. (MaxLen - 1)
  /\ loadedCount \in 0 .. MaxLen
  /\ Len(timers) <= MaxTimers

\* ---------------------------------------------------------------- claims
\* the first n indices of a list of length len, written out without InitialItems
FirstIndices(n, len) == {i \in 0 .. MaxLen : i < n /\ i < len}

Initialized == last.op \in {"init", "reinit"}

\* C1: right after the initialize step (at mount, or re-run because the list
\* length or initialLoad changed) the loaded-index set is exactly
\* {0, ..., min(initialLoad, L) - 1} and the loaded count is min(initialLoad, L).
C1_InitialLoad ==
  Initialized =>
    /\ loadedItems = FirstIndices(initialLoad, Len(projects))
    /\ loadedCount = Min(initialLoad, Len(projects))

\* C1 witness: the grid mounted with 0 < initialLoad < L and the first
\* initialLoad indices are loaded.
C1_Witness ==
  /\ last.op = "init"
  /\ 0 < initialLoad
  /\ initialLoad < Len(projects)
  /\ loadedItems = 0 .. (initialLoad - 1)
  /\ loadedCount = initialLoad

\* C2: in every state of a mounted grid every loaded index i satisfies
\* 0 <= i < length of the displayed list.
C2_IndicesInRange ==
  last.op # "new" => \A i \in loadedItems : 0 <= i /\ i < Len(projects)

\* C3 (as claimed): no step, a re-initialization included, removes an index
\* from the loaded-index set or makes it smaller.
C3_NeverShrinks ==
  [][/\ loadedItems \subseteq loadedItems'
     /\ Cardinality(loadedItems) <= Cardinality(loadedItems')]_vars

\* C3 (amended): every step other than a re-initialization (item-became-visible,
\* a deferred batch expansion, a re-render that changes neither the list length
\* nor initialLoad) keeps every loaded index and never makes the set smaller.
C3_GrowsBetweenResets ==
  [][last'.op # "reinit" =>
       /\ loadedItems \subseteq loadedItems'
       /\ Cardinality(loadedItems) <= Cardinality(loadedItems')]_vars

\* C3 witness: a deferred expansion has fired and the set holds more than the
\* initial load.
C3_Witness ==
  /\ last.op = "timer"
  /\ FirstIndices(initialLoad, Len(projects)) \subseteq loadedItems
  /\ Cardinality(loadedItems) > Min(initialLoad, Len(projects)) + 1

\* C4: a change of the list length or of initialLoad resets the loaded-index set
\* to exactly {0, ..., min(initialLoad, newLength) - 1}, and an expansion that
\* was scheduled before the change contributes nothing to the set afterwards.
C4_ResetDiscardsEarlierActivity ==
  [][/\ last'.op = "reinit" =>
          loadedItems' = FirstIndices(initialLoad', Len(projects'))
     /\ (FireTimer /\ Head(timers).stale) => loadedItems' = loadedItems]_vars

\* C5: once the deferred expansion scheduled by item-became-visible(i) has
\* fired, every index of [max(0, i - b), min(L - 1, i + b)] is loaded, L being
\* the list length when i became visible.
C5_WindowLoaded ==
  [][FireTimer =>
       \A j \in 0 .. MaxLen :
         (/\ Head(timers).index - batchSize <= j
          /\ j <= Head(timers).index + batchSize
          /\ j <= Head(timers).length - 1)
         => j \in loadedItems']_vars

\* C5 witness: with nothing loaded initially, the expansion for an index with
\* a neighbour on each side has fired and the index and both neighbours are
\* loaded.
C5_Witness ==
  /\ last.op = "timer"
  /\ enableVirtualization
  /\ initialLoad = 0
  /\ last.index >= 1
  /\ last.index + 1 < Len(projects)
  /\ {last.index - 1, last.index, last.index + 1} \subseteq loadedItems

\* C6: in every state of a mounted grid and for every index i of the list,
\* delivering item-became-visible(i) twice and letting every deferred expansion
\* fire gives the same loaded-index set as delivering it once.
C6_Idempotent ==
  last.op # "new" =>
    \A i \in 0 .. (Len(projects) - 1) :
      LET once == handleItemVisible(Grid, i, Len(projects), batchSize,
                                    enableVirtualization)
          twice == handleItemVisible(once, i, Len(projects), batchSize,
                                     enableVirtualization)
      IN Drain(once).loadedItems = Drain(twice).loadedItems

\* C6 witness: item-became-visible(i) was delivered with batch-prefetch on, its
\* expansion is pending, and a second delivery of i would change nothing.
C6_Witness ==
  /\ last.op = "visible"
  /\ enableVirtualization
  /\ timers # <<>>
  /\ timers[Len(timers)].index = last.index
  /\ handleItemVisible(Grid, last.index, Len(projects), batchSize,
                       enableVirtualization) = Grid

\* C7: the batch-loading flag is true exactly while a deferred expansion is
\* pending, overlapping expansions included.
C7_FlagIffPending == isLoading <=> (timers # <<>>)

\* C8: with enableVirtualization = false the flag is always false, no
\* expansion is ever pending, no placeholder is rendered, and
\* item-became-visible(i) for a not-yet-loaded i adds exactly i.
C8_NoVirtualization ==
  [][~enableVirtualization =>
       /\ ~isLoading /\ timers = <<>> /\ PlaceholderCount = 0
       /\ ~isLoading' /\ timers' = <<>> /\ PlaceholderCount' = 0
       /\ \A i \in 0 .. (MaxLen - 1) :
            (ItemVisible(i) /\ i \notin loadedItems)
            => loadedItems' = loadedItems \cup {i}]_vars

\* C8 witness: without batch-prefetch an index beyond the initial load became
\* visible, and the set is the initial load plus that index.
C8_Witness ==
  /\ ~enableVirtualization
  /\ last.op = "visible"
  /\ last.index >= initialLoad
  /\ loadedItems = FirstIndices(initialLoad, Len(projects)) \cup {last.index}
  /\ ~isLoading
  /\ timers = <<>>

\* C9: an item (a slug) that is rendered as the real card is rendered as the
\* real card in every later state in which it is still in the list.
C9_NeverBackToSkeleton ==
  [][\A s \in Mounted(projects) \cap Mounted(projects') :
       RendersCard(projects, loadedItems, hasBeenVisible, s)
       => RendersCard(projects', loadedItems', hasBeenVisible', s)]_vars

WindowAround(i, b, len) ==
  {j \in 0 .. MaxLen : i - b <= j /\ j <= i + b /\ j <= len - 1}

\* C13: in every settled state of a mounted grid the loaded count equals the
\* number of indices in the loaded-index set.
C13_CountMatchesSet == last.op # "new" => loadedCount = Cardinality(loadedItems)

\* C14: with enableVirtualization = true and nothing else pending, for every
\* not-yet-loaded index i, item-became-visible(i) followed by its deferred
\* expansion turns the loaded-index set S into exactly S united with {i} and
\* [max(0, i - b), min(L - 1, i + b)], and the flag is false afterwards; for
\* L = 10, initialLoad = 3, b = 2, i = 5 the result is {0, ..., 7}.
C14_ExactExpansion ==
  /\ (last.op # "new" /\ enableVirtualization /\ timers = <<>>) =>
       \A i \in (0 .. (Len(projects) - 1)) \ loadedItems :
         LET scheduled == handleItemVisible(Grid, i, Len(projects), batchSize, TRUE)
             fired == timerCallback(scheduled)
         IN /\ scheduled.isLoading
            /\ fired.loadedItems =
                 loadedItems \cup {i} \cup WindowAround(i, batchSize, Len(projects))
            /\ ~fired.isLoading
            /\ fired.timers = <<>>
  /\ LET start == [loadedItems |-> {0, 1, 2}, loadedCount |-> 3,
                   isLoading |-> FALSE, timers |-> <<>>]
         scheduled == handleItemVisible(start, 5, 10, 2, TRUE)
         fired == timerCallback(scheduled)
     IN /\ scheduled.isLoading
        /\ fired.loadedItems = 0 .. 7
        /\ ~fired.isLoading

\* C14 witness: with batch-prefetch on, an index beyond the initial load became
\* visible, its expansion has fired with nothing else pending, and the set is
\* the initial load plus the window around the index.
C14_Witness ==
  /\ last.op = "timer"
  /\ enableVirtualization
  /\ timers = <<>>
  /\ ~isLoading
  /\ last.index >= initialLoad
  /\ last.index < Len(projects)
  /\ loadedItems = FirstIndices(initialLoad, Len(projects))
                     \cup WindowAround(last.index, batchSize, Len(projects))

\* C15: item-became-visible(i) for an index i that is already loaded changes
\* neither the loaded-index set, nor the count, nor the flag, and schedules no
\* expansion, whatever enableVirtualization is.
C15_LoadedIndexNoOp ==
  [][\A i \in 0 .. (MaxLen - 1) :
       (ItemVisible(i) /\ i \in loadedItems)
       => UNCHANGED <<loadedItems, loadedCount, isLoading, timers>>]_vars

\* C15 witness: with batch-prefetch on, an index of the initial load was
\* delivered and nothing is pending and the flag is false.
C15_Witness ==
  /\ last.op = "visible"
  /\ enableVirtualization
  /\ last.index < initialLoad
  /\ last.index \in loadedItems
  /\ timers = <<>>
  /\ ~isLoading

\* C16: a deferred expansion scheduled under the current list length applies
\* to the set as it is when the timer fires: the set afterwards is that set,
\* with everything added since the scheduling, united with the window around
\* the expansion's index.
C16_NoLostUpdate ==
  [][(FireTimer /\ Head(timers).length = Len(projects)) =>
       loadedItems' = loadedItems
                        \cup WindowAround(Head(timers).index, batchSize, Len(projects))]_vars

\* C16 witness: the expansion for i has fired while the expansion for j,
\* scheduled after it, is still pending, and j, outside the window around i,
\* is still loaded.
C16_Witness ==
  /\ last.op = "timer"
  /\ timers # <<>>
  /\ ~timers[1].stale
  /\ timers[1].index \in loadedItems
  /\ timers[1].index \notin WindowAround(last.index, batchSize, Len(projects))
  /\ WindowAround(last.index, batchSize, Len(projects)) \subseteq loadedItems

\* C17: in every state without a pending expansion the flag is false, and
\* when every scheduled timer eventually fires a true flag eventually becomes
\* false.
C17_FlagNotStuck ==
  /\ [](timers = <<>> => ~isLoading)
  /\ (isLoading ~> ~isLoading)

\* C17 witness: a re-initialization happened while an expansion was pending,
\* the expansion has fired since, and the flag is false with nothing pending.
C17_Witness ==
  /\ last.op = "timer"
  /\ enableVirtualization
  /\ timers = <<>>
  /\ ~isLoading
  /\ Len(projects) > 0
  /\ \E i \in loadedItems : i >= Len(projects)

\* C18: with enableVirtualization = false the loaded-index set contains the
\* initial load, and delivering two indices i and j in either order, with or
\* without a repetition, adds exactly i and j to it.
C18_OrderIndependent ==
  (last.op # "new" /\ ~enableVirtualization) =>
    /\ FirstIndices(initialLoad, Len(projects)) \subseteq loadedItems
    /\ \A i, j \in 0 .. (Len(projects) - 1) :
         LET H(g, k) == handleItemVisible(g, k, Len(projects), batchSize, FALSE)
         IN /\ H(H(Grid, i), j).loadedItems = loadedItems \cup {i, j}
            /\ H(H(Grid, j), i).loadedItems = loadedItems \cup {i, j}
            /\ H(H(H(Grid, i), j), i).loadedItems = loadedItems \cup {i, j}

\* C18 witness: without batch-prefetch two indices beyond the initial load
\* were delivered and the set is the initial load plus those two.
C18_Witness ==
  /\ ~enableVirtualization
  /\ last.op = "visible"
  /\ FirstIndices(initialLoad, Len(projects)) \subseteq loadedItems
  /\ Cardinality(loadedItems \ FirstIndices(initialLoad, Len(projects))) = 2

\* number of positions of seq that hold x
Count(seq, x) == Cardinality({k \in 1 .. Len(seq) : seq[k] = x})

\* seq holds only elements of src, in the order they have in src
KeepsOrderOf(seq, src) ==
  /\ \A k \in 1 .. Len(seq) : Count(src, seq[k]) = 1
  /\ \A a, b \in 1 .. Len(seq) :
       a < b => \E c, d \in 1 .. Len(src) : c < d /\ src[c] = seq[a] /\ src[d] = seq[b]

\* C11: the fetch is attempted once and never again; when it failed, the page
\* returns the error panel with the error's message ("An unknown error
\* occurred" for a thrown value that is no Error) and mounts no grid, hence no
\* project card.
C11_FetchFailure ==
  /\ page.fetchCalls = IF page.pc = "start" THEN 0 ELSE 1
  /\ (page.pc = "rendered" /\ page.thrown # <<>>) =>
       LET r == page.rendered[1]
           t == page.thrown[1]
       IN /\ r.view = "error"
          /\ r.message = <<IF t.isError THEN t.message
                           ELSE "An unknown error occurred">>
          /\ r.uiGrid = <<>>
          /\ r.systemGrid = <<>>
          /\ page.projects = <<>>

\* C11 witness: the fetch threw an Error and the page returned the error panel
\* showing its message.
C11_Witness ==
  /\ page.pc = "rendered"
  /\ page.thrown # <<>>
  /\ page.thrown[1].isError
  /\ page.rendered[1].view = "error"
  /\ page.rendered[1].message = <<page.thrown[1].message>>
  /\ page.fetchCalls = 1

\* C12: after a successful fetch every fetched project is in exactly one of
\* the two subsets, each subset keeps the source order, and a grid is mounted
\* for a subset, with that subset as its list, iff the subset is not empty.
C12_Partition ==
  (page.pc = "rendered" /\ page.thrown = <<>>) =>
    LET src == page.projects
        ui == uiProjects(src)
        sys == systemProjects(src)
        r == page.rendered[1]
    IN /\ \A j \in 1 .. Len(src) : Count(ui, src[j]) + Count(sys, src[j]) = 1
       /\ KeepsOrderOf(ui, src)
       /\ KeepsOrderOf(sys, src)
       /\ r.view = "main"
       /\ r.uiGrid = IF Len(ui) > 0 THEN <<ui>> ELSE <<>>
       /\ r.systemGrid = IF Len(sys) > 0 THEN <<sys>> ELSE <<>>

\* C12 witness: three projects of both tags were fetched, the two grids are
\* mounted and one of them holds two projects.
C12_Witness ==
  /\ page.pc = "rendered"
  /\ page.thrown = <<>>
  /\ Len(page.projects) = 3
  /\ page.rendered[1].uiGrid # <<>>
  /\ page.rendered[1].systemGrid # <<>>
  /\ Len(page.rendered[1].uiGrid[1]) = 2
  /\ Len(page.rendered[1].systemGrid[1]) = 1
====
